---- MODULE Spec2Model ----
(***************************************************************************)
(* Model of the Xiaohongshu batch processor: BatchProcessor.run, the       *)
(* per-folder pipeline process_folder_with_retry with its helpers, and the *)
(* provider fallback chain of ai_services.rewrite_content.                 *)
(*                                                                         *)
(* Names (of files and folders) are sequences of tokens: the token "."     *)
(* is the dot character, every other token is a non-empty run of           *)
(* characters without a dot.  TLA+ strings are ASCII, so the Chinese names *)
(* of the source are transliterated: "zhengwen" is 正文, "biaoti" is 标题, *)
(* "xinshengcheng" is 新生成文件, "yichuli" is 已处理文件, "peizhi" is     *)
(* 配置与提示词.                                                           *)
(***************************************************************************)
EXTENDS Integers, Sequences, FiniteSets, TLC

\* ------------------------------------------------------------------ bounds
\* number of processable subfolders the input directory may hold
MaxFolders == 2
\* highest numeric suffix a folder left by an earlier run may carry
MaxPre == 1

\* --------------------------------------------------------------- constants
\* process_folder_with_retry(folder_path, max_retries=3)
MaxRetries == 3

None == "None"
\* no path, no title, no document: the empty sequence
Nil == <<>>

\* ------------------------------------------------------------------- names
DOT == "."

\* str.lower() on the tokens the model uses
LowerTok(t) ==
    CASE t = "PNG" -> "png"
      [] t = "JPG" -> "jpg"
      [] t = "Jpeg" -> "jpeg"
      [] OTHER -> t

Lower(s) == [k \in 1..Len(s) |-> LowerTok(s[k])]

\* str.rfind('.') as a 0-based index, -1 when there is no dot.  Tokens other
\* than DOT are non-empty, so only the index's relation to the ends matters;
\* the model returns the 0-based token index.
RFindDot(name) ==
    IF \E k \in 1..Len(name) : name[k] = DOT
    THEN (CHOOSE k \in 1..Len(name) :
             /\ name[k] = DOT
             /\ \A j \in (k+1)..Len(name) : name[j] # DOT) - 1
    ELSE -1

\* pathlib.PurePath.suffix: the part of the name from its last dot on, empty
\* when the name has no dot, starts with its only dot or ends with a dot
Suffix(name) ==
    LET i == RFindDot(name) IN
    IF 0 < i /\ i < Len(name) - 1
    THEN SubSeq(name, i + 1, Len(name))
    ELSE <<>>

\* self.image_extensions
image_extensions ==
    { <<DOT, "jpg">>, <<DOT, "jpeg">>, <<DOT, "png">>, <<DOT, "bmp">>, <<DOT, "tiff">> }

\* the patterns validate_input_folder looks for, in the order of the code
DocPatterns ==
    << <<"zhengwen", DOT, "txt">>, <<"zhengwen", DOT, "docx">>, <<"zhengwen", DOT, "md">> >>

\* file.suffix.lower() in self.image_extensions
IsImage_NoLower(name) == Suffix(name) \in image_extensions

IsImage(name) == Lower(Suffix(name)) \in image_extensions

\* validate_input_folder on a folder that exists or not, holding `entries`
validate_input_folder(exists, entries) ==
    IF ~exists
    THEN [valid |-> FALSE, images |-> {}, document |-> Nil,
          errors |-> <<"no_folder">>]
    ELSE
      LET images    == { e \in entries : IsImage(e) }
          doc_files == SelectSeq(DocPatterns, LAMBDA p : p \in entries)
          docErr    == IF Len(doc_files) > 1 THEN <<"many_documents">>
                       ELSE IF Len(doc_files) = 1 THEN <<>>
                       ELSE <<"no_document">>
          imgErr    == IF images = {} THEN <<"no_images">> ELSE <<>>
          errors    == docErr \o imgErr
      IN [valid    |-> Len(errors) = 0,
          images   |-> images,
          document |-> IF Len(doc_files) = 1 THEN doc_files[1] ELSE Nil,
          errors   |-> errors]

\* ------------------------------------------------------- create_safe_filename
\* Titles are sequences of characters.  The model's alphabet has one
\* character of each class the function tells apart.
Punctuation == { "!", "?" }      \* in the punctuation string
InvalidChars == { "?", "/" }     \* in invalid_chars
Whitespace == { " " }

\* title.strip()[:100]
MaxNameLen == 100

RECURSIVE LStrip(_, _)
LStrip(s, drop) ==
    IF s # <<>> /\ s[1] \in drop THEN LStrip(Tail(s), drop) ELSE s

RECURSIVE RStrip(_, _)
RStrip(s, drop) ==
    IF s # <<>> /\ s[Len(s)] \in drop
    THEN RStrip(SubSeq(s, 1, Len(s) - 1), drop)
    ELSE s

\* str.strip()
Strip(s) == RStrip(LStrip(s, Whitespace), Whitespace)

create_safe_filename(title) ==
    LET t1 == Strip(title)
        t2 == LStrip(t1, Punctuation)
        t3 == RStrip(t2, Punctuation)
        t4 == SelectSeq(t3, LAMBDA c : c \notin InvalidChars)
        t5 == Strip(t4)
    IN SubSeq(t5, 1, IF Len(t5) < MaxNameLen THEN Len(t5) ELSE MaxNameLen)

\* ------------------------------------------------------------------- paths
\* A path is a sequence of tokens, SEP between its components.
SEP == "/"

\* OUTPUT_FOLDER_PATH and PROCESSED_FOLDER_PATH defaults; INPUT_FOLDER_PATH is
\* ".", so a subfolder's path is its name
output_folder_path == <<"xinshengcheng">>
processed_folder_path == <<"yichuli">>

\* Path.__truediv__: joining an empty component leaves the path unchanged
Join(dir, name) == IF name = <<>> THEN dir ELSE dir \o <<SEP>> \o name

\* str(counter)
NumStr(k) ==
    CASE k = 1 -> "1" [] k = 2 -> "2" [] k = 3 -> "3" [] k = 4 -> "4"
      [] k = 5 -> "5" [] k = 6 -> "6" [] k = 7 -> "7" [] k = 8 -> "8"
      [] k = 9 -> "9" [] k = 10 -> "10" [] k = 11 -> "11" [] k = 12 -> "12"
      [] k = 13 -> "13" [] k = 14 -> "14" [] k = 15 -> "15" [] k = 16 -> "16"
      [] OTHER -> "many"

\* Path(f"{original_path}_{counter}")
Suffixed(original, counter) == original \o <<"_", NumStr(counter)>>

\* counter = 1; while path.exists(): path = f"{original}_{counter}"; counter += 1
RECURSIVE SuffixLoop(_, _, _, _)
SuffixLoop(existing, original, path, counter) ==
    IF path \in existing
    THEN SuffixLoop(existing, original, Suffixed(original, counter), counter + 1)
    ELSE path

\* the path the numeric-suffix loop leaves for `original`
FreshPath(existing, original) == SuffixLoop(existing, original, original, 1)

\* the candidates base, base_1, base_2, ... in the order the loop tries them
Candidate(original, k) == IF k = 0 THEN original ELSE Suffixed(original, k)

\* ------------------------------------------------------------------- state
VARIABLES
    inputExists,       \* whether INPUT_FOLDER_PATH exists
    dirs,              \* the directories that exist, as paths
    content,           \* the entries of each source folder
    pc,                \* position in run / process_folder_with_retry / rewrite_content
    subfolders,        \* run: the enumerated subfolders
    i,                 \* run: index of the folder being processed (1-based)
    success_count,     \* run
    total_count,       \* run
    called,            \* the folders process_folder_with_retry was called for, in order
    folder_path,       \* process_folder_with_retry: its argument
    attempt,           \* process_folder_with_retry: the loop variable
    validation,        \* result of validate_input_folder in this attempt
    original_content,
    rewritten_content,
    title,
    output_dir,
    outFiles,          \* the files written to output_dir in this attempt, with their content
    calls,             \* rewrite_content: the providers called so far in this call, with outcomes
    outcomes,          \* how each attempt of this call ended
    log,               \* the steps completed in this attempt, in order
    dirsAtEntry,       \* the directories that existed when this call began
    exc,               \* the exception an attempt raised, None when none
    report,            \* run: the counts of its closing summary, None before
    result             \* return value of process_folder_with_retry

vars == << inputExists, dirs, content, pc, subfolders, i, success_count, total_count,
           called, folder_path, attempt, validation, original_content,
           rewritten_content, title, output_dir, outFiles, calls, outcomes, log,
           dirsAtEntry, exc, report, result >>

runVars == << subfolders, i, success_count, total_count, called, report >>
fsVars == << inputExists, dirs, content >>
localVars == << validation, original_content, rewritten_content, title, output_dir, outFiles >>

\* ------------------------------------------------------------- environment
FolderName(k) == <<"f", NumStr(k)>>
Folders == { FolderName(k) : k \in 1..MaxFolders }

\* directories of the input directory that run must not enumerate
OtherDirs == { <<"__pycache__">>, <<DOT, "git">> }

File(stem, ext) == <<stem, DOT, ext>>

\* folder contents the pipeline is run on
ValidTwoImages == { File("zhengwen", "txt"), File("a", "jpg"), File("b", "PNG") }
ValidOneImage == { File("zhengwen", "md"), File("a", "jpg"), File("notes", "txt") }
NoDocument == { File("a", "jpg") }
TwoDocuments == { File("zhengwen", "txt"), File("zhengwen", "md"), File("a", "jpg") }
NoImages == { File("zhengwen", "docx"), <<DOT, "jpg">> }

\* what the providers can answer: an empty completion or a text
Responses == { "", "x", "y" }
FAIL == "fail"

\* what generate_title can return: chosen so that two titles share a safe
\* name, one has an empty safe name and one is empty
Titles == { <<>>, <<"a">>, <<"!", "a">>, <<"?">> }

\* what read_document can return
DocContents == { None, "", "doc" }

\* output folders and archived folders left by earlier runs
PreOutput(ks) == { Candidate(Join(output_folder_path, <<"a">>), k) : k \in ks }
PreProcessed(ks) ==
    { Candidate(Join(processed_folder_path, f), k) : f \in Folders, k \in ks }
PreDirs(ks) ==
    IF ks = {} THEN {}
    ELSE PreOutput(ks) \cup PreProcessed(ks) \cup {output_folder_path, processed_folder_path}

\* --------------------------------------------------------- rewrite_content
\* the provider rewrite_content turns to when provider p has failed, None
\* when it raises instead
Fallback_SkipSiliconFlow(p) ==
    CASE p = "OpenRouter" -> "Moonshot"
      [] p = "SiliconFlow" -> "Moonshot"
      [] OTHER -> None

Fallback_TwoTiers(p) ==
    CASE p = "OpenRouter" -> "SiliconFlow"
      [] OTHER -> None

Fallback(p) ==
    CASE p = "OpenRouter" -> "SiliconFlow"
      [] p = "SiliconFlow" -> "Moonshot"
      [] OTHER -> None

ProviderPc(p) ==
    CASE p = "OpenRouter" -> "rewrite_openrouter"
      [] p = "SiliconFlow" -> "rewrite_siliconflow"
      [] OTHER -> "rewrite_moonshot"

\* one try block of rewrite_content: the call of provider p, which fails or
\* answers `out`
CallProvider(p) ==
    /\ pc = ProviderPc(p)
    /\ \E out \in Responses \cup {FAIL} :
         /\ calls' = Append(calls, [provider |-> p, out |-> out])
         /\ IF out # FAIL
            THEN /\ rewritten_content' = out
                 /\ pc' = "rewrite_returned"
                 /\ exc' = exc
            ELSE IF Fallback(p) = None
            THEN /\ exc' = "all_models_failed"
                 /\ pc' = "except"
                 /\ rewritten_content' = rewritten_content
            ELSE /\ pc' = ProviderPc(Fallback(p))
                 /\ UNCHANGED << rewritten_content, exc >>
    /\ UNCHANGED << fsVars, runVars, folder_path, attempt, validation, original_content,
                    title, output_dir, outFiles, outcomes, log, dirsAtEntry, result >>

CallOpenRouter == CallProvider("OpenRouter")
CallSiliconFlow == CallProvider("SiliconFlow")
CallMoonshot == CallProvider("Moonshot")

\* --------------------------------------------- process_folder_with_retry
\* the locals before they are assigned
NoValidation == [valid |-> FALSE, images |-> {}, document |-> Nil, errors |-> <<>>]
NoFiles == [images |-> {}, content |-> {}, title |-> {}]
NoReport == [printed |-> FALSE, succeeded |-> 0, total |-> 0, failed |-> 0]

EntriesOf(f) == IF f \in DOMAIN content THEN content[f] ELSE {}

Raise(e) == exc' = e /\ pc' = "except"

\* for attempt in range(max_retries); the return False after the loop
AttemptStart ==
    /\ pc = "attempt"
    /\ IF attempt < MaxRetries
       THEN pc' = "validate" /\ result' = result
       ELSE pc' = "returned" /\ result' = FALSE
    /\ log' = <<>>
    /\ UNCHANGED << fsVars, runVars, folder_path, attempt, localVars, calls, outcomes,
                    dirsAtEntry, exc >>

Validate_InvalidRaises ==
    /\ pc = "validate"
    /\ LET v == validate_input_folder(folder_path \in dirs, EntriesOf(folder_path)) IN
         /\ validation' = v
         /\ IF v.valid
            THEN pc' = "read" /\ log' = Append(log, "validate") /\ exc' = exc
            ELSE Raise("validation_failed") /\ log' = log
    /\ UNCHANGED << fsVars, runVars, folder_path, attempt, original_content,
                    rewritten_content, title, output_dir, outFiles, calls, dirsAtEntry,
                    result, outcomes >>

Validate ==
    /\ pc = "validate"
    /\ LET v == validate_input_folder(folder_path \in dirs, EntriesOf(folder_path)) IN
         /\ validation' = v
         /\ IF v.valid
            THEN /\ pc' = "read"
                 /\ log' = Append(log, "validate")
                 /\ UNCHANGED << result, outcomes >>
            ELSE /\ pc' = "returned"
                 /\ result' = FALSE
                 /\ outcomes' = Append(outcomes, "invalid")
                 /\ log' = log
    /\ UNCHANGED << fsVars, runVars, folder_path, attempt, original_content,
                    rewritten_content, title, output_dir, outFiles, calls, dirsAtEntry, exc >>

\* read_document: dispatch on the suffix; `read` is what the reader returns
doc_extensions == { <<DOT, "txt">>, <<DOT, "docx">>, <<DOT, "md">> }

read_document(doc_path, read) ==
    IF Lower(Suffix(doc_path)) \in doc_extensions THEN read ELSE None

ReadDocument ==
    /\ pc = "read"
    /\ \E read \in DocContents :
         LET c == read_document(validation.document, read) IN
         /\ original_content' = c
         /\ IF c \in {None, ""}
            THEN Raise("document_read_failed") /\ log' = log
            ELSE /\ pc' = "rewrite_openrouter"
                 /\ log' = Append(log, "read")
                 /\ exc' = exc
    /\ calls' = <<>>
    /\ UNCHANGED << fsVars, runVars, folder_path, attempt, validation, rewritten_content,
                    title, output_dir, outFiles, outcomes, dirsAtEntry, result >>

\* if not rewritten_content: raise
RewriteReturned_AcceptsEmpty ==
    /\ pc = "rewrite_returned"
    /\ pc' = "title"
    /\ log' = Append(log, "rewrite")
    /\ calls' = <<>>
    /\ UNCHANGED << fsVars, runVars, folder_path, attempt, localVars, outcomes, dirsAtEntry,
                    result, exc >>

RewriteReturned ==
    /\ pc = "rewrite_returned"
    /\ IF rewritten_content = ""
       THEN Raise("rewrite_failed") /\ log' = log
       ELSE pc' = "title" /\ log' = Append(log, "rewrite") /\ exc' = exc
    /\ calls' = <<>>
    /\ UNCHANGED << fsVars, runVars, folder_path, attempt, localVars, outcomes, dirsAtEntry,
                    result >>

\* generate_title and the check of its result
GenerateTitle ==
    /\ pc = "title"
    /\ \E failed \in BOOLEAN, t \in Titles :
         IF failed
         THEN Raise("title_generation_failed") /\ UNCHANGED << title, log >>
         ELSE /\ title' = t
              /\ IF Len(t) = 0
                 THEN Raise("title_failed") /\ log' = log
                 ELSE pc' = "create" /\ log' = Append(log, "title") /\ exc' = exc
    /\ UNCHANGED << fsVars, runVars, folder_path, attempt, validation, original_content,
                    rewritten_content, output_dir, outFiles, calls, outcomes, dirsAtEntry,
                    result >>

\* the path create_output_folder makes for `t` when `existing` exist
create_output_folder_Reuse(existing, t) ==
    Join(output_folder_path, create_safe_filename(t))

create_output_folder(existing, t) ==
    FreshPath(existing \cup {output_folder_path},
              Join(output_folder_path, create_safe_filename(t)))

CreateOutputFolder ==
    /\ pc = "create"
    /\ LET path == create_output_folder(dirs, title) IN
         /\ output_dir' = path
         /\ dirs' = dirs \cup {output_folder_path, path}
         /\ dirsAtEntry' = dirsAtEntry
    /\ outFiles' = NoFiles
    /\ log' = Append(log, "create")
    /\ pc' = "images"
    /\ UNCHANGED << inputExists, content, runVars, folder_path, attempt, validation,
                    original_content, rewritten_content, title, calls, outcomes, exc,
                    result >>

\* process_images: `done` are the images read and saved; `raised` is an
\* exception of the filters on an image, which is then not saved
ProcessImages_ThenMove ==
    /\ pc = "images"
    /\ \E done \in SUBSET validation.images, raised \in BOOLEAN :
         /\ raised => done # validation.images
         /\ outFiles' = [outFiles EXCEPT !.images = done]
         /\ IF raised
            THEN Raise("image_filter_failed") /\ log' = log
            ELSE IF Cardinality(done) = 0
            THEN Raise("image_processing_failed") /\ log' = log
            ELSE pc' = "move" /\ log' = Append(log, "images") /\ exc' = exc
    /\ UNCHANGED << fsVars, runVars, folder_path, attempt, validation, original_content,
                    rewritten_content, title, output_dir, calls, outcomes, dirsAtEntry,
                    result >>

ProcessImages ==
    /\ pc = "images"
    /\ \E done \in SUBSET validation.images, raised \in BOOLEAN :
         /\ raised => done # validation.images
         /\ outFiles' = [outFiles EXCEPT !.images = done]
         /\ IF raised
            THEN Raise("image_filter_failed") /\ log' = log
            ELSE IF Cardinality(done) = 0
            THEN Raise("image_processing_failed") /\ log' = log
            ELSE pc' = "write_content" /\ log' = Append(log, "images") /\ exc' = exc
    /\ UNCHANGED << fsVars, runVars, folder_path, attempt, validation, original_content,
                    rewritten_content, title, output_dir, calls, outcomes, dirsAtEntry,
                    result >>

\* with open(output_dir / name, 'w') as f: f.write(text); the open or the
\* write can fail
WriteFile(at, files, tag, next) ==
    /\ pc = at
    /\ \E ok \in BOOLEAN :
         IF ok
         THEN /\ outFiles' = files
              /\ log' = Append(log, tag)
              /\ pc' = next
              /\ exc' = exc
         ELSE Raise("write_failed") /\ UNCHANGED << outFiles, log >>
    /\ UNCHANGED << fsVars, runVars, folder_path, attempt, validation, original_content,
                    rewritten_content, title, output_dir, calls, outcomes, dirsAtEntry,
                    result >>

\* output_dir / "zhengwen.md" gets rewritten_content
WriteContent ==
    WriteFile("write_content", [outFiles EXCEPT !.content = {rewritten_content}],
              "write_content", "write_title")

\* output_dir / "biaoti.txt" gets title
WriteTitle ==
    WriteFile("write_title", [outFiles EXCEPT !.title = {title}], "write_title", "move")

\* the target move_source_folder picks for `source` when `existing` exist
move_target(existing, source) ==
    FreshPath(existing \cup {processed_folder_path}, Join(processed_folder_path, source))

\* move_source_folder followed by the return True: the move succeeds, or the
\* mkdir or shutil.move raises and move_source_folder returns False
MoveSource_FailureRaises ==
    /\ pc = "move"
    /\ \E how \in {"moved", "mkdir_failed", "move_failed"} :
         /\ how = "moved" => folder_path \in dirs
         /\ dirs' = CASE how = "moved" ->
                           (dirs \ {folder_path})
                              \cup {processed_folder_path, move_target(dirs, folder_path)}
                      [] how = "move_failed" -> dirs \cup {processed_folder_path}
                      [] OTHER -> dirs
         /\ IF how = "moved"
            THEN /\ log' = Append(log, "move")
                 /\ result' = TRUE
                 /\ outcomes' = Append(outcomes, "completed")
                 /\ pc' = "returned"
                 /\ exc' = exc
            ELSE Raise("move_failed") /\ UNCHANGED << log, result, outcomes >>
    /\ UNCHANGED << inputExists, content, runVars, folder_path, attempt, localVars, calls,
                    dirsAtEntry >>

MoveSource ==
    /\ pc = "move"
    /\ \E how \in {"moved", "mkdir_failed", "move_failed"} :
         /\ how = "moved" => folder_path \in dirs
         /\ dirs' = CASE how = "moved" ->
                           (dirs \ {folder_path})
                              \cup {processed_folder_path, move_target(dirs, folder_path)}
                      [] how = "move_failed" -> dirs \cup {processed_folder_path}
                      [] OTHER -> dirs
    /\ log' = Append(log, "move")
    /\ result' = TRUE
    /\ outcomes' = Append(outcomes, "completed")
    /\ pc' = "returned"
    /\ UNCHANGED << inputExists, content, runVars, folder_path, attempt, localVars, calls,
                    dirsAtEntry, exc >>

\* except Exception as e: return False on the last attempt, else sleep and
\* go on with the next attempt
Handler_GivesUpEarly ==
    /\ pc = "except"
    /\ outcomes' = Append(outcomes, "raised")
    /\ IF attempt >= MaxRetries - 2
       THEN pc' = "returned" /\ result' = FALSE /\ attempt' = attempt
       ELSE pc' = "attempt" /\ result' = result /\ attempt' = attempt + 1
    /\ exc' = None
    /\ calls' = <<>>
    /\ validation' = NoValidation
    /\ original_content' = None
    /\ rewritten_content' = None
    /\ title' = Nil
    /\ output_dir' = Nil
    /\ outFiles' = NoFiles
    /\ UNCHANGED << fsVars, runVars, folder_path, log, dirsAtEntry >>

Handler ==
    /\ pc = "except"
    /\ outcomes' = Append(outcomes, "raised")
    /\ IF attempt = MaxRetries - 1
       THEN pc' = "returned" /\ result' = FALSE /\ attempt' = attempt
       ELSE pc' = "attempt" /\ result' = result /\ attempt' = attempt + 1
    /\ exc' = None
    /\ calls' = <<>>
    /\ validation' = NoValidation
    /\ original_content' = None
    /\ rewritten_content' = None
    /\ title' = Nil
    /\ output_dir' = Nil
    /\ outFiles' = NoFiles
    /\ UNCHANGED << fsVars, runVars, folder_path, log, dirsAtEntry >>

\* the state at the entry of process_folder_with_retry(f)
EnterFolder(f) ==
    /\ folder_path' = f
    /\ attempt' = 0
    /\ pc' = "attempt"
    /\ validation' = NoValidation
    /\ original_content' = None
    /\ rewritten_content' = None
    /\ title' = Nil
    /\ output_dir' = Nil
    /\ outFiles' = NoFiles
    /\ calls' = <<>>
    /\ outcomes' = <<>>
    /\ log' = <<>>
    /\ dirsAtEntry' = dirs
    /\ exc' = None
    /\ result' = FALSE

\* ----------------------------------------------------------------- run
\* exclude_folders
exclude_folders ==
    { <<DOT>>, <<DOT, DOT>>, <<"__pycache__">>, <<DOT, "cursor">>, <<"peizhi">>,
      processed_folder_path, output_folder_path }

\* f.is_dir() and f.name not in exclude_folders and not f.name.startswith('.'),
\* for the entries of the input directory
IsSubfolder(p) ==
    /\ \A k \in 1..Len(p) : p[k] # SEP
    /\ p \notin exclude_folders
    /\ p[1] # DOT

\* the orders iterdir can list the set S in
Orders(S) ==
    { s \in [1..Cardinality(S) -> S] : \A a, b \in 1..Cardinality(S) : a # b => s[a] # s[b] }

\* run up to the loop: the two early returns, or the enumeration
RunStart ==
    /\ pc = "run"
    /\ IF ~inputExists
       THEN pc' = "done" /\ UNCHANGED << subfolders, success_count, total_count, i >>
       ELSE \E order \in Orders({ p \in dirs : IsSubfolder(p) }) :
              /\ subfolders' = order
              /\ IF Len(order) = 0
                 THEN pc' = "done" /\ UNCHANGED << success_count, total_count, i >>
                 ELSE /\ success_count' = 0
                      /\ total_count' = Len(order)
                      /\ i' = 1
                      /\ pc' = "loop"
    /\ UNCHANGED << fsVars, called, report, folder_path, attempt, localVars, calls,
                    outcomes, log, dirsAtEntry, exc, result >>

\* the loop head: the call for the next folder
RunCall ==
    /\ pc = "loop"
    /\ i <= total_count
    /\ EnterFolder(subfolders[i])
    /\ called' = Append(called, subfolders[i])
    /\ UNCHANGED << fsVars, subfolders, i, success_count, total_count, report >>

\* the loop body after the call: count the success, sleep
RunAfterCall_StopsOnFailure ==
    /\ pc = "returned"
    /\ success_count' = IF result THEN success_count + 1 ELSE success_count
    /\ i' = IF result THEN i + 1 ELSE total_count + 1
    /\ pc' = "loop"
    /\ UNCHANGED << fsVars, subfolders, total_count, called, report, folder_path, attempt,
                    localVars, calls, outcomes, log, dirsAtEntry, exc, result >>

RunAfterCall ==
    /\ pc = "returned"
    /\ success_count' = IF result THEN success_count + 1 ELSE success_count
    /\ i' = i + 1
    /\ pc' = "loop"
    /\ UNCHANGED << fsVars, subfolders, total_count, called, report, folder_path, attempt,
                    localVars, calls, outcomes, log, dirsAtEntry, exc, result >>

\* the closing summary
RunFinish ==
    /\ pc = "loop"
    /\ i > total_count
    /\ report' = [printed |-> TRUE, succeeded |-> success_count, total |-> total_count,
                  failed |-> total_count - success_count]
    /\ pc' = "done"
    /\ UNCHANGED << fsVars, subfolders, i, success_count, total_count, called, folder_path,
                    attempt, localVars, calls, outcomes, log, dirsAtEntry, exc, result >>

\* ------------------------------------------------------- specifications
\* the state before any call of process_folder_with_retry
NoCall ==
    /\ folder_path = Nil
    /\ attempt = 0
    /\ validation = NoValidation
    /\ original_content = None
    /\ rewritten_content = None
    /\ title = Nil
    /\ output_dir = Nil
    /\ outFiles = NoFiles
    /\ calls = <<>>
    /\ outcomes = <<>>
    /\ log = <<>>
    /\ dirsAtEntry = dirs
    /\ exc = None
    /\ result = FALSE

NoRun ==
    /\ subfolders = <<>>
    /\ i = 0
    /\ success_count = 0
    /\ total_count = 0
    /\ report = NoReport

\* run(): an input directory holding some of Folders (the first one is valid,
\* the second one is valid or lacks its document, any further one lacks its
\* document), beside directories run leaves alone and, or not, the folders of
\* earlier runs
Init ==
    /\ inputExists \in BOOLEAN
    /\ \E present \in SUBSET Folders, ks \in {{}, 0..MaxPre} :
         /\ ~inputExists => present = {} /\ ks = {}
         /\ dirs = IF inputExists THEN present \cup OtherDirs \cup PreDirs(ks) ELSE {}
         /\ content \in [present -> {ValidOneImage, NoDocument}]
         /\ \A f \in present :
              /\ f = FolderName(1) => content[f] = ValidOneImage
              /\ f \notin {FolderName(1), FolderName(2)} => content[f] = NoDocument
    /\ pc = "run"
    /\ called = <<>>
    /\ NoRun
    /\ NoCall

FolderNext ==
    \/ AttemptStart
    \/ Validate
    \/ ReadDocument
    \/ CallOpenRouter
    \/ CallSiliconFlow
    \/ CallMoonshot
    \/ RewriteReturned
    \/ GenerateTitle
    \/ CreateOutputFolder
    \/ ProcessImages
    \/ WriteContent
    \/ WriteTitle
    \/ MoveSource
    \/ Handler

Next ==
    \/ RunStart
    \/ RunCall
    \/ RunAfterCall
    \/ RunFinish
    \/ FolderNext

Spec == Init /\ [][Next]_vars

\* one call process_folder_with_retry(f1), on a folder that exists or not,
\* with any of the contents.  Every step of the call is a return of a
\* library or service call; the calls are taken to return.
FolderInit ==
    /\ inputExists = TRUE
    /\ \E exists \in BOOLEAN, ks \in SUBSET (0..MaxPre) :
         dirs = (IF exists THEN {FolderName(1)} ELSE {}) \cup PreDirs(ks)
    /\ content \in [{FolderName(1)} ->
                      {ValidTwoImages, ValidOneImage, NoDocument, TwoDocuments, NoImages}]
    /\ pc = "attempt"
    /\ called = <<FolderName(1)>>
    /\ NoRun
    /\ folder_path = FolderName(1)
    /\ attempt = 0
    /\ validation = NoValidation
    /\ original_content = None
    /\ rewritten_content = None
    /\ title = Nil
    /\ output_dir = Nil
    /\ outFiles = NoFiles
    /\ calls = <<>>
    /\ outcomes = <<>>
    /\ log = <<>>
    /\ dirsAtEntry = dirs
    /\ exc = None
    /\ result = FALSE

FolderSpec == FolderInit /\ [][FolderNext]_vars /\ WF_vars(FolderNext)

\* validate_input_folder alone, on a folder that exists or not and holds any
\* set of these entries
EntryNames ==
    { File("zhengwen", "txt"), File("zhengwen", "docx"), File("zhengwen", "md"),
      File("a", "jpg"), File("b", "PNG"), <<DOT, "jpg">>,
      <<"c", DOT, "jpg", DOT, "bak">>, <<"e", DOT, "Jpeg", DOT>>, <<"tiff">> }

ValidateInit ==
    /\ inputExists = TRUE
    /\ dirs \in { {}, {FolderName(1)} }
    /\ content \in [{FolderName(1)} -> SUBSET EntryNames]
    /\ pc = "validate"
    /\ called = <<FolderName(1)>>
    /\ NoRun
    /\ folder_path = FolderName(1)
    /\ attempt = 0
    /\ validation = NoValidation
    /\ original_content = None
    /\ rewritten_content = None
    /\ title = Nil
    /\ output_dir = Nil
    /\ outFiles = NoFiles
    /\ calls = <<>>
    /\ outcomes = <<>>
    /\ log = <<>>
    /\ dirsAtEntry = dirs
    /\ exc = None
    /\ result = FALSE

ValidateSpec == ValidateInit /\ [][Validate]_vars

\* ================================================================== claims
Last(s) == s[Len(s)]

\* ---- C1 ----------------------------------------------------------------
ProviderOrder == <<"OpenRouter", "SiliconFlow", "Moonshot">>

AllProvidersFailed ==
    /\ { calls[k].provider : k \in 1..Len(calls) } = { "OpenRouter", "SiliconFlow", "Moonshot" }
    /\ \A k \in 1..Len(calls) : calls[k].out = FAIL

SomeProviderAnswered == \E k \in 1..Len(calls) : calls[k].out # FAIL

AttemptsBegun == IF pc = "returned" THEN Len(outcomes) ELSE attempt + 1

C3_Attempts ==
    /\ AttemptsBegun <= MaxRetries
    /\ pc # "returned" => Len(outcomes) = attempt
    /\ \A k \in 1..(Len(outcomes) - 1) : outcomes[k] = "raised"
    /\ pc = "returned" =>
         /\ Len(outcomes) >= 1
         /\ result = TRUE <=> Last(outcomes) = "completed"
         /\ Last(outcomes) = "raised" => Len(outcomes) = MaxRetries
    /\ (Len(outcomes) = MaxRetries /\ Last(outcomes) = "raised") =>
         (pc = "returned" /\ result = FALSE)

\* C3: process_folder_with_retry terminates; it begins at most max_retries
\* attempts, each one after the first only when the one before has raised;
\* it returns True exactly at the attempt that completes, and False when
\* attempt number max_retries has raised (no earlier attempt's exception
\* ends the call).
C3_RetryTerminates == []C3_Attempts /\ <>(pc = "returned")

\* the third attempt completes after two that raised
C3_Witness ==
    /\ pc = "returned"
    /\ result = TRUE
    /\ outcomes = <<"raised", "raised", "completed">>

\* ---- C4 ----------------------------------------------------------------
StepOrder ==
    << "validate", "read", "rewrite", "title", "create", "images", "write_content",
       "write_title", "move" >>

\* the source folder was at its place when the call began and is not any more
SourceMoved == folder_path \in dirsAtEntry /\ folder_path \notin dirs

\* C4: the steps completed in an attempt are an initial part of validate,
\* read, rewrite, title, create, images, write_content, write_title, move;
\* and once the source folder has been moved, the output folder of the
\* attempt holds at least one image, zhengwen.md with the rewritten content
\* and biaoti.txt with the title.
C4_StepOrder ==
    /\ Len(log) <= Len(StepOrder)
    /\ \A k \in 1..Len(log) : log[k] = StepOrder[k]
    /\ SourceMoved =>
         /\ outFiles.images # {}
         /\ outFiles.content = {rewritten_content}
         /\ outFiles.title = {title}

C4_Witness ==
    /\ pc = "returned"
    /\ SourceMoved
    /\ log = StepOrder

\* ---- C5 ----------------------------------------------------------------
\* the base paths the two numeric-suffix loops start from
OutputBase(t) == Join(output_folder_path, create_safe_filename(t))
ArchiveBase(f) == Join(processed_folder_path, f)

\* `path` is the first of base, base_1, base_2, ... that is not in `existing`
FirstFree(existing, base, path) ==
    \E k \in 0..16 :
      /\ path = Candidate(base, k)
      /\ path \notin existing
      /\ \A j \in 0..(k - 1) : Candidate(base, j) \in existing

\* C5: the path create_output_folder chooses, and the target a successful
\* move_source_folder chooses, is the first of base, base_1, base_2, ... that
\* does not exist before the call.
C5_FirstFreeBeforeCall ==
    [][ /\ pc = "create" => FirstFree(dirs, OutputBase(title), output_dir')
        /\ (pc = "move" /\ folder_path \in dirs /\ folder_path \notin dirs') =>
             \E target \in dirs' \ dirs : FirstFree(dirs, ArchiveBase(folder_path), target)
      ]_vars

\* the part of C5 that the code keeps: the output folder chosen does not exist
\* before the call, and the move puts the source at a path that did not exist
C5_NeverSelectsExisting ==
    [][ /\ pc = "create" => output_dir' \notin dirs
        /\ (pc = "move" /\ folder_path \in dirs /\ folder_path \notin dirs') =>
             \E target \in dirs' \ dirs :
               \E k \in 0..16 : target = Candidate(ArchiveBase(folder_path), k)
      ]_vars

\* ---- C6 ----------------------------------------------------------------
\* the output folders: the paths made from the output path, itself excluded
IsOutputFolder(p) == Len(p) > 1 /\ p[1] = output_folder_path[1]

\* the output folders this call has created
Created == { p \in dirs \ dirsAtEntry : IsOutputFolder(p) }

\* C6 as stated: a call leaves at most one output folder
C6_AtMostOneOutputFolder == pc = "returned" => Cardinality(Created) <= 1

\* C6 amended: create_output_folder makes a new output folder each time it
\* is called, also for a title it was called with before, so a call leaves
\* one output folder for each attempt that reached create_output_folder: at
\* most one per attempt begun, max_retries at most.
C6_OneOutputFolderPerAttempt ==
    /\ [][pc = "create" => /\ output_dir' \notin Created
                           /\ Created' = Created \cup {output_dir'}]_vars
    /\ [](Cardinality(Created) <= AttemptsBegun /\ Cardinality(Created) <= MaxRetries)

\* three attempts, three output folders
C6_Witness == pc = "returned" /\ Cardinality(Created) = MaxRetries

\* ---- C7 ----------------------------------------------------------------
\* validate_input_folder has returned a result with errors
ValidationFailed == Len(validation.errors) > 0

\* C7: once validate_input_folder has reported errors, the call has returned
\* False in its first attempt, no provider and no title was asked for, no
\* directory was created and the source folder was not moved.
C7_InvalidNotRetried ==
    ValidationFailed =>
      /\ pc = "returned"
      /\ result = FALSE
      /\ attempt = 0
      /\ outcomes = <<"invalid">>
      /\ calls = <<>>
      /\ rewritten_content = None
      /\ title = Nil
      /\ output_dir = Nil
      /\ dirs = dirsAtEntry

\* a folder that exists and has no document
C7_Witness ==
    /\ pc = "returned"
    /\ folder_path \in dirs
    /\ validation.errors = <<"no_document">>

\* ---- C8 ----------------------------------------------------------------
ImageExtensionTokens ==
    { "jpg", "JPG", "jpeg", "Jpeg", "JPEG", "png", "PNG", "bmp", "BMP", "tiff", "TIFF" }

\* the name is a non-empty stem, a dot and an image extension in any case
HasImageExtension(name) ==
    /\ Len(name) >= 3
    /\ name[Len(name) - 1] = DOT
    /\ name[Len(name)] \in ImageExtensionTokens

DocumentNames ==
    { File("zhengwen", "txt"), File("zhengwen", "docx"), File("zhengwen", "md") }

DocumentsFound == IF folder_path \in dirs THEN DocumentNames \cap EntriesOf(folder_path) ELSE {}

Validated == pc \in {"read", "returned"}

\* C8: the result of validate_input_folder is valid exactly when the folder
\* exists, holds exactly one of the three documents and holds an entry with
\* an image extension; valid is true exactly when errors is empty; document
\* is set exactly when one document was found, and is that document.
C8_ValidIff ==
    Validated =>
      /\ validation.valid <=>
           /\ folder_path \in dirs
           /\ Cardinality(DocumentsFound) = 1
           /\ \E e \in EntriesOf(folder_path) : HasImageExtension(e)
      /\ validation.valid <=> Len(validation.errors) = 0
      /\ validation.document # Nil <=> Cardinality(DocumentsFound) = 1
      /\ validation.document # Nil => validation.document \in DocumentsFound

\* a folder whose only image has an upper-case extension is valid
C8_Witness ==
    /\ Validated
    /\ validation.valid
    /\ validation.images = { File("b", "PNG") }

\* ---- C9 ----------------------------------------------------------------
\* C9: the folders process_folder_with_retry was called for are an initial
\* part of the enumerated subfolders (so each is called for once, in the
\* order of the enumeration); when run prints its summary it has called it
\* for all of them, and the counts printed satisfy succeeded + failed = total
\* with 0 <= succeeded <= total, total being the number enumerated.
C9_EveryFolderOnce ==
    /\ Len(called) <= Len(subfolders)
    /\ \A k \in 1..Len(called) : called[k] = subfolders[k]
    /\ \A a, b \in 1..Len(subfolders) : a # b => subfolders[a] # subfolders[b]
    /\ report.printed =>
         /\ called = subfolders
         /\ report.total = Len(subfolders)
         /\ report.succeeded + report.failed = report.total
         /\ 0 <= report.succeeded
         /\ report.succeeded <= report.total

\* the first folder, which lacks its document, failed and the second one,
\* called for after it, succeeded
C9_Witness ==
    /\ report.printed
    /\ subfolders = <<FolderName(2), FolderName(1)>>
    /\ content[FolderName(2)] = NoDocument
    /\ called = subfolders
    /\ report.succeeded = 1
    /\ report.failed = 1

\* ---- C10 ---------------------------------------------------------------
\* the steps before the move have all been completed in this attempt
WrittenAll == Len(log) >= 8 /\ log[8] = "write_title"

\* C10: when every step before the move has succeeded, the call returns True
\* in that attempt, whether move_source_folder moved the folder or failed.
C10_MoveFailureIgnored ==
    (WrittenAll /\ pc # "move") =>
      /\ pc = "returned"
      /\ result = TRUE
      /\ Len(outcomes) = attempt + 1
      /\ Last(outcomes) = "completed"

\* returned True with the source folder still at its place
C10_Witness ==
    /\ pc = "returned"
    /\ result = TRUE
    /\ folder_path \in dirsAtEntry
    /\ folder_path \in dirs

\* ---- C11 ---------------------------------------------------------------
\* C11: when process_folder_with_retry has returned True, the output folder
\* of the attempt that completed is one this call created and still exists,
\* it holds at least one processed image, each one an image of the source
\* folder, zhengwen.md holds the rewritten content of that attempt and
\* biaoti.txt its title, and neither the rewritten content nor the title is
\* empty.
C11_CompleteOutput ==
    (pc = "returned" /\ result = TRUE) =>
      /\ output_dir \in Created
      /\ outFiles.images # {}
      /\ outFiles.images \subseteq validation.images
      /\ outFiles.content = {rewritten_content}
      /\ rewritten_content \notin {None, ""}
      /\ outFiles.title = {title}
      /\ Len(title) > 0

\* the second attempt completes, in a second output folder, with one of the
\* two images of the source folder saved
C11_Witness ==
    /\ pc = "returned"
    /\ result = TRUE
    /\ attempt = 1
    /\ Cardinality(Created) = 2
    /\ Cardinality(validation.images) = 2
    /\ Cardinality(outFiles.images) = 1

====
